---- MODULE Spec2Model ----
(***************************************************************************)
(* A model of pyqtinstaller's "compile" command                            *)
(* (src/pyqtinstaller/compile_command.py): the module-level helpers        *)
(* (to_bool, get_version, ...), CompileCommand.finalize_options and the    *)
(* staged pipeline of CompileCommand.run.                                  *)
(*                                                                         *)
(* Text that the code processes character by character (boolean-ish        *)
(* option strings, version descriptions, comma-delimited lists) is a       *)
(* sequence of one-character strings.  Paths, which the code only tests    *)
(* for existence and hands on, are plain strings.                          *)
(***************************************************************************)
EXTENDS Integers, Sequences, FiniteSets, TLC

VARIABLES
    pc,               \* position of the command: constructed .. done / failed
    opt,              \* the option attributes of the CompileCommand instance
    app_version_c,    \* self._app_version_c, the cached version
    app_config,       \* self.app_config
    dirs,             \* directories that exist on disk
    files,            \* files that exist on disk
    marker,           \* content of <package>/__version__.py, or absent
    invoked,          \* external processes invoked so far, with exit status
    trace,            \* stages of run() entered so far, in order
    output_dirs,      \* run()'s local output_dirs: the pending output targets
    pending,          \* the targets the installer loop has still to visit
    installers,       \* installer executables moved to the working directory
    error,            \* the exception that ended the command, or NoError
    clock,            \* wall-clock seconds since construction
    repo,             \* the checkout `git describe` looks at
    hook_log,         \* the mappings the hooks called so far have returned
    user_config,      \* the user-configuration file of tool locations on disk
    project_file,     \* content of the <project>.pdy descriptor, or absent
    call              \* the last direct call of a module-level helper

vars == <<pc, opt, app_version_c, app_config, dirs, files, marker, invoked,
          trace, output_dirs, pending, installers, error, clock, repo, hook_log,
          user_config, project_file, call>>

pipeline_vars == <<pc, opt, app_version_c, app_config, dirs, files, marker,
                   invoked, trace, output_dirs, pending, installers, error,
                   clock, repo, hook_log, user_config, project_file>>

----------------------------------------------------------------------------
(* Bounds of the model.                                                    *)

MaxStrLen == 3        \* longest option string handed to to_bool directly
MaxTagLen == 5        \* longest X of a tag 'v' + X handed to get_version
MaxDistance == 2      \* largest commit distance git describe reports
MaxRoots == 2         \* longest sys.path handed to package discovery
MaxRequires == 2      \* longest list of required packages
MaxPreHooks == 1      \* most pre-build hooks configured
MaxPostHooks == 2     \* most post-build hooks configured
MaxListLen == 4       \* longest option string handed to to_str_list directly

----------------------------------------------------------------------------
(* Python values and strings.                                              *)

None == [t |-> "None"]
PyBool(b) == [t |-> "bool", v |-> b]
PyStr(s) == [t |-> "str", v |-> s]

\* Python truthiness of None, a bool or a str
Truthy(x) ==
    CASE x.t = "None" -> FALSE
      [] x.t = "bool" -> x.v
      [] x.t = "str"  -> Len(x.v) > 0

Range(s) == {s[i] : i \in 1..Len(s)}

SeqsUpTo(S, n) == UNION {[1..k -> S] : k \in 0..n}

LowerOf(c) ==
    CASE c = "T" -> "t"
      [] c = "Y" -> "y"
      [] c = "E" -> "e"
      [] c = "S" -> "s"
      [] c = "R" -> "r"
      [] c = "U" -> "u"
      [] OTHER   -> c

\* str.lower()
Lower(s) == [i \in 1..Len(s) |-> LowerOf(s[i])]

\* index of the first occurrence of c in s, or 0
RECURSIVE IndexOf(_, _, _)
IndexOf(s, c, from) ==
    IF from > Len(s) THEN 0
    ELSE IF s[from] = c THEN from
    ELSE IndexOf(s, c, from + 1)

\* str.split(sep) for a one-character separator: empty segments are kept
RECURSIVE Split(_, _)
Split(s, sep) ==
    LET i == IndexOf(s, sep, 1)
    IN  IF i = 0 THEN <<s>>
        ELSE <<SubSeq(s, 1, i - 1)>> \o Split(SubSeq(s, i + 1, Len(s)), sep)

\* sep.join(parts)
RECURSIVE Join(_, _)
Join(parts, sep) ==
    IF Len(parts) = 0 THEN <<>>
    ELSE IF Len(parts) = 1 THEN parts[1]
    ELSE parts[1] \o <<sep>> \o Join(Tail(parts), sep)

RECURSIVE LStrip(_, _)
LStrip(s, c) ==
    IF Len(s) > 0 /\ s[1] = c THEN LStrip(Tail(s), c) ELSE s

RECURSIVE RStrip(_, _)
RStrip(s, c) ==
    IF Len(s) > 0 /\ s[Len(s)] = c THEN RStrip(SubSeq(s, 1, Len(s) - 1), c)
    ELSE s

\* str.strip(c): every leading and every trailing c is removed
Strip(s, c) == RStrip(LStrip(s, c), c)

----------------------------------------------------------------------------
(* to_bool                                                                 *)

TrueStrings == {<<"1">>, <<"t", "r", "u", "e">>, <<"t">>, <<"y", "e", "s">>}

to_bool_no_lower(arg) ==
    IF Truthy(arg) THEN arg.v \in TrueStrings ELSE FALSE

to_bool(arg) ==
    IF Truthy(arg) THEN Lower(arg.v) \in TrueStrings ELSE FALSE

----------------------------------------------------------------------------
(* get_version                                                             *)

Digits == <<"0", "1", "2", "3", "4", "5", "6", "7", "8", "9">>

Digit(n) == Digits[n + 1]

\* what `git describe --tags` prints for a checkout: nothing, the tag itself
\* on a tagged commit, <tag>-<distance>-<commit> otherwise
GitDescribe(git) ==
    IF ~git.tagged THEN <<>>
    ELSE IF git.distance = 0 THEN git.tag
    ELSE git.tag \o <<"-", Digit(git.distance), "-">> \o git.commit

TimestampWidth == 14

\* datetime.now().strftime('%Y%m%d%H%M%S'): 14 digits
Timestamp(now) ==
    [i \in 1..TimestampWidth |->
        IF i = TimestampWidth THEN Digit(now % 10)
        ELSE IF i = TimestampWidth - 1 THEN Digit((now \div 10) % 10)
        ELSE "0"]

Returned(v) == [ok |-> TRUE, v |-> v]
Raised(e) == [ok |-> FALSE, err |-> e]

get_version_no_strict(description, declared, now, allow_untagged) ==
    IF Len(description) > 0
    THEN LET version_parts == Split(Strip(description, "v"), "-")
         IN  Returned(Join(IF Len(version_parts) <= 2 THEN version_parts
                           ELSE SubSeq(version_parts, 1, Len(version_parts) - 1),
                           "-"))
    ELSE LET version_parts == Split(declared, "-")
             build == Timestamp(now)
         IN  Returned(Join(IF Len(version_parts) = 1
                           THEN Append(version_parts, build)
                           ELSE [version_parts EXCEPT ![Len(version_parts)] = build],
                           "-"))

\* description: the output of git describe; declared: <package>.__version__;
\* now: the clock at the call
get_version(description, declared, now, allow_untagged) ==
    IF Len(description) > 0
    THEN LET version_parts == Split(Strip(description, "v"), "-")
         IN  IF ~allow_untagged /\ Len(version_parts) > 2
             THEN Raised("ValueError")
             ELSE Returned(Join(IF Len(version_parts) <= 2 THEN version_parts
                                ELSE SubSeq(version_parts, 1, Len(version_parts) - 1),
                                "-"))
    ELSE LET version_parts == Split(declared, "-")
             build == Timestamp(now)
         IN  Returned(Join(IF Len(version_parts) = 1
                           THEN Append(version_parts, build)
                           ELSE [version_parts EXCEPT ![Len(version_parts)] = build],
                           "-"))

----------------------------------------------------------------------------
(* CompileCommand._get_external_package_path                               *)

RECURSIVE SelectSeq2(_, _, _)
\* [d for d in paths if <d, require> in exists]
SelectSeq2(paths, require, exists) ==
    IF Len(paths) = 0 THEN <<>>
    ELSE (IF <<paths[1], require>> \in exists THEN <<paths[1]>> ELSE <<>>)
         \o SelectSeq2(Tail(paths), require, exists)

RECURSIVE FilterPaths(_, _, _)
\* the loop over requires: the candidate list is narrowed by each require in
\* turn and the loop stops at the first require that empties it
FilterPaths(valid_package_paths, requires, exists) ==
    IF Len(requires) = 0 THEN Returned(valid_package_paths[1])
    ELSE LET narrowed == SelectSeq2(valid_package_paths, requires[1], exists)
         IN  IF Len(narrowed) = 0
             THEN [ok |-> FALSE, err |-> "AssertionError", require |-> requires[1]]
             ELSE FilterPaths(narrowed, Tail(requires), exists)

RECURSIVE FirstOfEach(_, _, _)
\* a discovery that resolves every require on its own and answers with the
\* root of the last one
FirstOfEach(valid_package_paths, requires, exists) ==
    IF Len(requires) = 0 THEN Returned(valid_package_paths[1])
    ELSE LET found == SelectSeq2(valid_package_paths, requires[1], exists)
         IN  IF Len(found) = 0
             THEN [ok |-> FALSE, err |-> "AssertionError", require |-> requires[1]]
             ELSE IF Len(requires) = 1 THEN Returned(found[1])
             ELSE FirstOfEach(valid_package_paths, Tail(requires), exists)

get_external_package_path_each(sys_path, requires, exists) ==
    FirstOfEach(sys_path \o <<".">>, requires, exists)

\* sys_path: sys.path; exists: the <<root, name>> pairs for which
\* package_exists(root, name) is true
get_external_package_path(sys_path, requires, exists) ==
    FilterPaths(sys_path \o <<".">>, requires, exists)

----------------------------------------------------------------------------
(* Direct calls of the module-level helpers.                               *)

BoolChars == {"1", "t", "T", "y", "e", "s", "n"}

ToBoolArgs ==
    {None, PyBool(FALSE)}
        \cup {PyStr(s) : s \in SeqsUpTo(BoolChars, MaxStrLen)}
        \cup {PyStr(s) : s \in {<<"t", "r", "u", "e">>, <<"T", "r", "u", "e">>,
                                <<"T", "R", "U", "E">>, <<"t", "r", "u", "e", "s">>,
                                <<"f", "a", "l", "s", "e">>}}

TagChars == {"v", "1", "-"}

\* the part X of a tag 'v' + X
TagBodies == SeqsUpTo(TagChars, MaxTagLen) \ {<<>>}

GitStates ==
    {[tagged |-> FALSE, tag |-> <<>>, distance |-> 0, commit |-> <<>>]}
        \cup {[tagged |-> TRUE, tag |-> <<"v">> \o x, distance |-> d,
               commit |-> <<"g", "1">>] :
                  x \in TagBodies, d \in 0..MaxDistance}

DeclaredVersions == {<<"1", ".", "2">>, <<"1", ".", "2", "-", "d">>}

Roots == {"site", "lib"}
Names == {"A", "B"}

NoCall == [fn |-> "none"]

CallToBool ==
    /\ call = NoCall
    /\ \E arg \in ToBoolArgs :
          call' = [fn |-> "to_bool", arg |-> arg, ret |-> to_bool(arg)]
    /\ UNCHANGED pipeline_vars

CallGetVersion ==
    /\ call = NoCall
    /\ \E git \in GitStates, declared \in DeclaredVersions,
          now \in {0, 12}, allow_untagged \in BOOLEAN :
          call' = [fn |-> "get_version", git |-> git, declared |-> declared,
                   now |-> now, allow_untagged |-> allow_untagged,
                   ret |-> get_version(GitDescribe(git), declared, now,
                                       allow_untagged)]
    /\ UNCHANGED pipeline_vars

CallGetExternalPackagePath ==
    /\ call = NoCall
    /\ \E sys_path \in SeqsUpTo(Roots, MaxRoots),
          requires \in SeqsUpTo(Names, MaxRequires),
          exists \in SUBSET ((Roots \cup {"."}) \X Names) :
          call' = [fn |-> "_get_external_package_path", sys_path |-> sys_path,
                   requires |-> requires, exists |-> exists,
                   ret |-> get_external_package_path(sys_path, requires, exists)]
    /\ UNCHANGED pipeline_vars

----------------------------------------------------------------------------
(* to_str_list                                                             *)

\* a parse that keeps only the first segment
to_str_list_first(comma_delimited) ==
    IF Truthy(comma_delimited)
    THEN <<Split(comma_delimited.v, ",")[1]>>
    ELSE <<>>

to_str_list(comma_delimited) ==
    IF Truthy(comma_delimited) THEN Split(comma_delimited.v, ",") ELSE <<>>

ListChars == {"a", "b", ","}

\* what an option that to_str_list converts may hold: None (the default) or
\* a string
ToStrListArgs == {None} \cup {PyStr(s) : s \in SeqsUpTo(ListChars, MaxListLen)}

CallToStrList ==
    /\ call = NoCall
    /\ \E arg \in ToStrListArgs :
          call' = [fn |-> "to_str_list", arg |-> arg, ret |-> to_str_list(arg)]
    /\ UNCHANGED pipeline_vars

----------------------------------------------------------------------------
(* The disk and the options of one command instance.                       *)

\* a path is a string of one token
Path(p) == PyStr(<<p>>)

isfile(x, fs) == x.t = "str" /\ Len(x.v) = 1 /\ x.v[1] \in fs
isdir(x, ds) == x.t = "str" /\ Len(x.v) = 1 /\ x.v[1] \in ds

\* the tool chain and the package as installed on the build machine
ToolFiles == {"qt/bin/qmake.exe", "inno/ISCC.exe", "app/__main__.py"}
ToolDirs == {"vc", "pyqt", "sip", "python", "app", "qt/bin", "inno", "site"}

\* everything below build_dir that the command itself creates
BuildTreeDirs == {"build", "build/app_resources", "build/translations",
                  "build/release", "build/release/translations",
                  "build/release/platforms", "build/release/packages",
                  "build/release/packages/A"}
BuildTreeFiles == {"build/app_resources/app_resources.qrc", "build/temp_tr.py",
                   "build/release/QtWebEngineProcess.exe", "build/stale.obj"}

\* what package_exists finds on the build machine
SitePackages == {<<"site", "A">>}
SysPath == <<"site">>

NoFile == [exists |-> FALSE]
FileWith(content) == [exists |-> TRUE, content |-> content]

NoError == "none"

\* initialize_options
DefaultOptions ==
    [qt_modules |-> None, qmake_path |-> None, vc_dir |-> None,
     platform |-> Path("amd64"), pyqt_dir |-> None, sip_dir |-> None,
     python_dir |-> None, inno_setup_path |-> None, package |-> None,
     entrypoint |-> None, app_name |-> None, build_dir |-> None,
     languages |-> None, external_packages |-> None,
     external_stdlib_modules |-> None,
     skip_installer |-> PyBool(FALSE), skip_post_build |-> PyBool(FALSE),
     post_build |-> None, pre_build |-> None, allow_untagged |-> None,
     signtool |-> None, source_files |-> None]

\* a configuration in which every required option is given and exists
ReferenceOptions ==
    [DefaultOptions EXCEPT
        !.qt_modules = PyStr(<<"QtCore">>),
        !.qmake_path = Path("qt/bin/qmake.exe"),
        !.vc_dir = Path("vc"),
        !.pyqt_dir = Path("pyqt"),
        !.sip_dir = Path("sip"),
        !.python_dir = Path("python"),
        !.inno_setup_path = Path("inno/ISCC.exe"),
        !.package = Path("app"),
        !.app_name = PyStr(<<"My", " ", "App">>)]

\* one required option missing, empty, or naming something that is not there
Deviations ==
    ({"qmake_path", "vc_dir", "pyqt_dir", "sip_dir", "python_dir",
      "inno_setup_path", "package"} \X {None, Path("nowhere")})
        \cup {<<"qmake_path", Path("vc")>>, <<"vc_dir", Path("inno/ISCC.exe")>>}
        \cup ({"platform"} \X {None, PyStr(<<>>), Path("x86")})
        \cup ({"qt_modules", "app_name"} \X {None, PyStr(<<>>)})

\* n hook references <file>:<function>, comma-delimited
HookOption(ref, n) ==
    IF n = 0 THEN None
    ELSE PyStr(Join([i \in 1..n |-> <<ref>>], ","))

FlagValues == {PyBool(FALSE), PyStr(<<"Y", "e", "s">>), PyStr(<<"n", "o">>)}

\* the options that name where a tool is installed
ToolLocations == {"qmake_path", "vc_dir", "pyqt_dir", "sip_dir", "python_dir",
                  "inno_setup_path"}

\* what a user-configuration file left by an earlier build may hold: no
\* file, or tool locations and an entry of another tool
StoredConfigs ==
    {NoFile,
     FileWith([k \in {"vc_dir", "nsis_path"} |->
                  IF k = "vc_dir" THEN Path("vc") ELSE Path("nsis")])}

----------------------------------------------------------------------------
(* Initial states: the command after construction (initialize_options),    *)
(* on a machine whose build directory may be left over from an earlier     *)
(* build.                                                                  *)

RunGitStates ==
    {g \in GitStates : ~g.tagged \/ (g.tag = <<"v", "1">> /\ g.distance <= 1)}

Init ==
    /\ pc = "constructed"
    /\ opt = DefaultOptions
    /\ app_version_c = None
    /\ app_config = None
    /\ \E stale \in BOOLEAN :
          /\ dirs = ToolDirs \cup (IF stale THEN {"build", "build/release"} ELSE {})
          /\ files = ToolFiles \cup (IF stale THEN {"build/stale.obj"} ELSE {})
    /\ marker = NoFile
    /\ invoked = <<>>
    /\ trace = <<>>
    /\ output_dirs = <<>>
    /\ pending = <<>>
    /\ installers = {}
    /\ error = NoError
    /\ clock = 0
    /\ repo \in RunGitStates
    /\ hook_log = [pre |-> <<>>, post |-> <<>>]
    /\ user_config \in StoredConfigs
    /\ project_file = NoFile
    /\ call = NoCall

\* the optional options of a configuration, and the installer tool, which
\* is optional when skip_installer is set
OptionalChoices ==
    [web : BOOLEAN,
     skip_post_build : {PyBool(FALSE), PyStr(<<"1">>)},
     allow_untagged : {None, PyStr(<<"T", "r", "u", "e">>)},
     languages : {None, PyStr(<<"fr">>)},
     signtool : {None, Path("signtool")},
     external_packages : {None, PyStr(<<"A">>)},
     inno_setup_path : {None, Path("inno/ISCC.exe")},
     n_pre : 0..MaxPreHooks,
     n_post : 0..MaxPostHooks]

\* a configuration that sets the optional options and nothing else
PlainChoice ==
    [web |-> FALSE, skip_post_build |-> PyBool(FALSE), allow_untagged |-> None,
     languages |-> None, signtool |-> None, external_packages |-> None,
     inno_setup_path |-> Path("inno/ISCC.exe"), n_pre |-> 0, n_post |-> 0]

Configure(c, skip_installer) ==
    [ReferenceOptions EXCEPT
        !.qt_modules = IF c.web THEN PyStr(<<"QtCore", ",", "QtWebEngine">>)
                       ELSE @,
        !.skip_installer = skip_installer,
        !.skip_post_build = c.skip_post_build,
        !.allow_untagged = c.allow_untagged,
        !.languages = c.languages,
        !.signtool = c.signtool,
        !.external_packages = c.external_packages,
        !.inno_setup_path = c.inno_setup_path,
        !.pre_build = HookOption("hooks.py:pre", c.n_pre),
        !.post_build = HookOption("hooks.py:post", c.n_post)]

\* the options as the distribution sets them from setup.cfg and the command
\* line, before finalize_options: the required options in order and any
\* choice of the optional ones, or one required option out of order (which
\* finalize_options rejects before it reads an optional one other than
\* skip_installer)
SetOptions ==
    /\ pc = "constructed"
    /\ \E skip_installer \in FlagValues :
          \/ \E c \in OptionalChoices : opt' = Configure(c, skip_installer)
          \/ \E dev \in Deviations :
                opt' = [Configure(PlainChoice, skip_installer)
                           EXCEPT ![dev[1]] = dev[2]]
    /\ pc' = "configured"
    /\ UNCHANGED <<app_version_c, app_config, dirs, files, marker, invoked,
                   trace, output_dirs, pending, installers, error, clock,
                   repo, hook_log, user_config, project_file, call>>

----------------------------------------------------------------------------
(* CompileCommand.finalize_options                                         *)

ExitCodes == {0, 1}

\* the asserts on the user options and on the general options
RequiredOptionsValid_no_qmake(o, ds, fs) ==
    /\ Truthy(o.vc_dir)
    /\ Truthy(o.platform)
    /\ Truthy(o.pyqt_dir)
    /\ Truthy(o.sip_dir)
    /\ Truthy(o.python_dir)
    /\ isdir(o.vc_dir, ds)
    /\ o.platform.v = <<"amd64">>
    /\ isdir(o.pyqt_dir, ds)
    /\ isdir(o.sip_dir, ds)
    /\ isdir(o.python_dir, ds)
    /\ Truthy(o.qt_modules)
    /\ Truthy(o.package)
    /\ Truthy(o.app_name)
    /\ isdir(o.package, ds)
    /\ (~Truthy(o.entrypoint) \/ isfile(o.entrypoint, fs))

RequiredOptionsValid(o, ds, fs) ==
    /\ Truthy(o.qmake_path)
    /\ Truthy(o.vc_dir)
    /\ Truthy(o.platform)
    /\ Truthy(o.pyqt_dir)
    /\ Truthy(o.sip_dir)
    /\ Truthy(o.python_dir)
    /\ isfile(o.qmake_path, fs)
    /\ isdir(o.vc_dir, ds)
    /\ o.platform.v = <<"amd64">>
    /\ isdir(o.pyqt_dir, ds)
    /\ isdir(o.sip_dir, ds)
    /\ isdir(o.python_dir, ds)
    /\ Truthy(o.qt_modules)
    /\ Truthy(o.package)
    /\ Truthy(o.app_name)
    /\ isdir(o.package, ds)
    /\ (~Truthy(o.entrypoint) \/ isfile(o.entrypoint, fs))

\* the conversions of the raw option strings
ConvertedOptions(o) ==
    [o EXCEPT
        !.qt_modules = to_str_list(o.qt_modules),
        !.external_stdlib_modules = to_str_list(o.external_stdlib_modules),
        !.external_packages = to_str_list(o.external_packages),
        !.languages = to_str_list(o.languages),
        !.post_build = to_str_list(o.post_build),
        !.pre_build = to_str_list(o.pre_build),
        !.skip_installer = to_bool(o.skip_installer),
        !.skip_post_build = to_bool(o.skip_post_build),
        !.allow_untagged = to_bool(o.allow_untagged)]

InstallerOptionsValid_always(o, fs) ==
    Truthy(o.inno_setup_path) /\ isfile(o.inno_setup_path, fs)

\* if not self.skip_installer: the two asserts on inno_setup_path
InstallerOptionsValid(o, fs) ==
    o.skip_installer \/ (Truthy(o.inno_setup_path) /\ isfile(o.inno_setup_path, fs))

\* self.app_name.replace(' ', '')
project_name(app_name) == SelectSeq(app_name.v, LAMBDA c : c # " ")

\* a property that resolves the version anew at every read
app_version_uncached(cached, fresh) == fresh

\* the property _app_version: the cached value when there is one, else the
\* value get_version gives now
app_version(cached, fresh) ==
    IF cached = None THEN fresh ELSE Returned(cached.v)

\* the property _app_version_short of a version
app_version_short(version) ==
    LET version_parts == Split(version, "-")
    IN  IF Len(version_parts) = 1 THEN version_parts[1]
        ELSE version_parts[1] \o <<".">> \o version_parts[Len(version_parts)]

\* <package>.__version__ as the package under build declares it
PackageVersion == <<"1", ".", "2">>

\* self._app_version, read with the cache holding `cached`
CurrentVersion(cached, o) ==
    app_version(cached,
                get_version(GitDescribe(repo), PackageVersion, clock,
                            o.allow_untagged))

Abort(e) == pc' = "failed" /\ error' = e

FinalizeOptions ==
    /\ pc = "configured"
    /\ clock' = clock + 1
    /\ UNCHANGED <<dirs, files, marker, trace, output_dirs, pending,
                   installers, repo, hook_log, user_config, project_file, call>>
    /\ IF ~RequiredOptionsValid(opt, dirs, files)
       THEN /\ Abort("AssertionError")
            /\ UNCHANGED <<opt, app_version_c, app_config, invoked>>
       ELSE LET o == ConvertedOptions(opt)
            IN  IF ~InstallerOptionsValid(o, files)
                THEN /\ Abort("AssertionError")
                     /\ opt' = o
                     /\ UNCHANGED <<app_version_c, app_config, invoked>>
                ELSE /\ opt' = [o EXCEPT !.build_dir =
                                    IF Truthy(@) THEN @ ELSE Path("build")]
                     /\ \E code \in ExitCodes :
                          LET version == CurrentVersion(None, o)
                          IN  /\ invoked' = Append(invoked,
                                                   [cmd |-> "git", code |-> code])
                              /\ IF code # 0
                                 THEN /\ Abort("CalledProcessError")
                                      /\ UNCHANGED <<app_version_c, app_config>>
                                 ELSE IF ~version.ok
                                 THEN /\ Abort(version.err)
                                      /\ UNCHANGED <<app_version_c, app_config>>
                                 ELSE /\ app_version_c' = PyStr(version.v)
                                      /\ app_config' =
                                            [app_version |-> version.v,
                                             app_name |-> o.app_name.v]
                                      /\ pc' = "finalized"
                                      /\ UNCHANGED error

----------------------------------------------------------------------------
(* CompileCommand.run: the statements of run() in program order.           *)

RunOrder ==
    <<"apply_version", "clean", "pre_build", "build_project_file",
      "create_app_resources", "get_vc_env", "run_pyqtdeploy", "remove_version",
      "generate_ts", "generate_qm", "run_qmake", "update_source_files",
      "run_nmake", "copy_binaries", "copy_external_packages", "web_engine",
      "post_build", "installer">>

StatementIndex(stmt) == CHOOSE i \in 1..Len(RunOrder) : RunOrder[i] = stmt

\* a run() that cleans the build directory before it writes the marker
After_clean_first(stmt) ==
    CASE stmt = "finalized" -> "clean"
      [] stmt = "clean" -> "apply_version"
      [] stmt = "apply_version" -> "pre_build"
      [] stmt = "installer" -> "done"
      [] OTHER -> RunOrder[StatementIndex(stmt) + 1]

\* the statement run() executes after stmt has returned
After(stmt) ==
    CASE stmt = "finalized" -> RunOrder[1]
      [] stmt = "installer" -> "done"
      [] OTHER -> RunOrder[StatementIndex(stmt) + 1]

assert_call_unchecked(result) == TRUE

\* assert not result: whether the call lets the caller go on
assert_call(result) == result = 0

Exec(cmd, code) == invoked' = Append(invoked, [cmd |-> cmd, code |-> code])

\* check_output raises CalledProcessError on a non-zero exit status
check_output(result) == result = 0

Enter(stmt) == /\ pc = stmt
               /\ clock' = clock + 1
               /\ trace' = Append(trace, stmt)

\* the statement returned, or an external process it waited for failed
Leave(stmt, ok, e) ==
    IF ok THEN pc' = After(stmt) /\ error' = error
    ELSE Abort(e)

\* run() is entered: sys.stdout.write(... self._app_version ...)
Run ==
    /\ pc = "finalized"
    /\ CurrentVersion(app_version_c, opt).ok
    /\ clock' = clock + 1
    /\ pc' = After("finalized")
    /\ UNCHANGED <<opt, app_version_c, app_config, dirs, files, marker,
                   invoked, trace, output_dirs, pending, installers, error,
                   repo, hook_log, user_config, project_file, call>>

\* self._apply_version()
ApplyVersion ==
    /\ Enter("apply_version")
    /\ marker' = FileWith(CurrentVersion(app_version_c, opt).v)
    /\ pc' = After("apply_version")
    /\ UNCHANGED <<opt, app_version_c, app_config, dirs, files, invoked,
                   output_dirs, pending, installers, error, repo, hook_log, user_config, project_file, call>>

\* self._clean()
Clean ==
    /\ Enter("clean")
    /\ IF opt.build_dir.v[1] \in dirs
       THEN /\ dirs' = dirs \ BuildTreeDirs
            /\ files' = files \ BuildTreeFiles
       ELSE UNCHANGED <<dirs, files>>
    /\ pc' = After("clean")
    /\ UNCHANGED <<opt, app_version_c, app_config, marker, invoked,
                   output_dirs, pending, installers, error, repo, hook_log, user_config, project_file, call>>

\* what the function a hook reference names does when it is called
HookOutcomes ==
    {[kind |-> "returns", targets |-> <<>>],
     [kind |-> "returns",
      targets |-> <<[name |-> "a", output |-> [dict |-> FALSE, output_dir |-> "dist/a"]]>>],
     [kind |-> "returns",
      targets |-> <<[name |-> "a", output |-> [dict |-> TRUE, output_dir |-> "dist/a2"]],
                    [name |-> "b", output |-> [dict |-> FALSE, output_dir |-> "dist/b"]]>>],
     [kind |-> "not a mapping", targets |-> <<>>],
     [kind |-> "raises", targets |-> <<>>],
     [kind |-> "no such function", targets |-> <<>>]}

\* _exec_build_step: the mapping it returns, or the exception it raises
exec_build_step(outcome) ==
    CASE outcome.kind = "no such function" -> Raised("RuntimeError")
      [] outcome.kind = "raises" -> Raised("HookError")
      [] OTHER -> Returned(outcome)

KeysOf(d) == {d[i].name : i \in 1..Len(d)}

\* {**d, **e}: the keys of d keep their place and take e's value when e has
\* the key; the keys only e has follow in e's order
DictMerge(d, e) ==
    [i \in 1..Len(d) |->
        IF d[i].name \in KeysOf(e)
        THEN e[CHOOSE j \in 1..Len(e) : e[j].name = d[i].name]
        ELSE d[i]]
    \o SelectSeq(e, LAMBDA item : item.name \notin KeysOf(d))

\* the targets of the mappings a sequence of hook calls returned, merged in
\* call order, or the exception of the first call that raised
RECURSIVE build_steps(_, _, _)
build_steps(outcomes, merged, mapping_needed) ==
    IF Len(outcomes) = 0 THEN Returned(merged)
    ELSE LET r == exec_build_step(outcomes[1])
         IN  IF ~r.ok THEN r
             ELSE IF mapping_needed /\ r.v.kind = "not a mapping"
             THEN Raised("TypeError")
             ELSE build_steps(Tail(outcomes), DictMerge(merged, r.v.targets),
                              mapping_needed)

\* for pre_build_step in self.pre_build: self._exec_build_step(pre_build_step)
\* (what the hooks return is dropped)
PreBuild ==
    /\ Enter("pre_build")
    /\ \E outcomes \in [1..Len(opt.pre_build) -> HookOutcomes] :
          LET r == build_steps(outcomes, <<>>, FALSE)
          IN  /\ Leave("pre_build", r.ok, IF r.ok THEN NoError ELSE r.err)
              /\ hook_log' = IF r.ok THEN [hook_log EXCEPT !.pre = r.v]
                             ELSE hook_log
    /\ UNCHANGED <<opt, app_version_c, app_config, dirs, files, marker,
                   invoked, output_dirs, pending, installers, repo, user_config, project_file, call>>

PdyFile == "MyApp.pdy"

\* self._build_project_file(): get_python_version runs python --version, then
\* the descriptor is rendered and written
BuildProjectFile ==
    /\ Enter("build_project_file")
    /\ \E code \in ExitCodes :
          /\ Exec("python", code)
          /\ Leave("build_project_file", check_output(code), "CalledProcessError")
          /\ files' = IF check_output(code) THEN files \cup {PdyFile} ELSE files
          /\ project_file' =
                IF check_output(code)
                THEN FileWith(app_version_short(
                                  CurrentVersion(app_version_c, opt).v))
                ELSE project_file
    /\ UNCHANGED <<opt, app_version_c, app_config, dirs, marker, output_dirs,
                   pending, installers, repo, hook_log, user_config, call>>

\* self._create_app_resources()
CreateAppResources ==
    /\ Enter("create_app_resources")
    /\ dirs' = dirs \cup {"build", "build/app_resources"}
    /\ files' = files \cup {"build/app_resources/app_resources.qrc"}
    /\ pc' = After("create_app_resources")
    /\ UNCHANGED <<opt, app_version_c, app_config, marker, invoked,
                   output_dirs, pending, installers, error, repo, hook_log, user_config, project_file, call>>

\* a statement of run() that does nothing but wait for one external process
\* started through assert_call
RunTool(stmt, cmd) ==
    /\ Enter(stmt)
    /\ \E code \in ExitCodes :
          /\ Exec(cmd, code)
          /\ Leave(stmt, assert_call(code), "AssertionError")
    /\ UNCHANGED <<opt, app_version_c, app_config, dirs, files, marker,
                   output_dirs, pending, installers, repo, hook_log, user_config, project_file, call>>

\* vc_env = self._get_vc_env(): cmd /c vcvarsall.bat through check_output
GetVcEnv ==
    /\ Enter("get_vc_env")
    /\ \E code \in ExitCodes :
          /\ Exec("vcvarsall", code)
          /\ Leave("get_vc_env", check_output(code), "CalledProcessError")
    /\ UNCHANGED <<opt, app_version_c, app_config, dirs, files, marker,
                   output_dirs, pending, installers, repo, hook_log, user_config, project_file, call>>

\* self._run_pyqtdeploy(vc_env)
RunPyqtdeploy == RunTool("run_pyqtdeploy", "pyqtdeploycli")

\* a _remove_version that leaves the marker file in the package
RemoveVersion_keep ==
    /\ Enter("remove_version")
    /\ pc' = After("remove_version")
    /\ UNCHANGED <<opt, app_version_c, app_config, dirs, files, marker,
                   invoked, output_dirs, pending, installers, error, repo,
                   hook_log, user_config, project_file, call>>

\* self._remove_version()
RemoveVersion ==
    /\ Enter("remove_version")
    /\ marker' = NoFile
    /\ Leave("remove_version", marker.exists, "FileNotFoundError")
    /\ UNCHANGED <<opt, app_version_c, app_config, dirs, files, invoked,
                   output_dirs, pending, installers, repo, hook_log, user_config, project_file, call>>

\* self._generate_ts(vc_env)
GenerateTs ==
    /\ Enter("generate_ts")
    /\ IF Len(opt.languages) > 0
       THEN \E code \in ExitCodes :
              /\ Exec("pylupdate5", code)
              /\ files' = files \cup {"build/temp_tr.py"}
              /\ dirs' = IF assert_call(code)
                         THEN dirs \cup {"translations", "build/translations"}
                         ELSE dirs \cup {"translations"}
              /\ Leave("generate_ts", assert_call(code), "AssertionError")
       ELSE /\ pc' = After("generate_ts")
            /\ UNCHANGED <<invoked, files, dirs, error>>
    /\ UNCHANGED <<opt, app_version_c, app_config, marker, output_dirs,
                   pending, installers, repo, hook_log, user_config, project_file, call>>

\* self._generate_qm(vc_env)
GenerateQm ==
    /\ Enter("generate_qm")
    /\ \E code \in ExitCodes :
          /\ Exec("lrelease", code)
          /\ dirs' = IF assert_call(code)
                     THEN dirs \cup {"build/release", "build/release/translations"}
                     ELSE dirs
          /\ Leave("generate_qm", assert_call(code), "AssertionError")
    /\ UNCHANGED <<opt, app_version_c, app_config, files, marker, output_dirs,
                   pending, installers, repo, hook_log, user_config, project_file, call>>

\* self._run_qmake(vc_env)
RunQmake == RunTool("run_qmake", "qmake")

\* self._update_source_files(): no source files are configured
UpdateSourceFiles ==
    /\ Enter("update_source_files")
    /\ pc' = After("update_source_files")
    /\ UNCHANGED <<opt, app_version_c, app_config, dirs, files, marker,
                   invoked, output_dirs, pending, installers, error, repo,
                   hook_log, user_config, project_file, call>>

\* self._run_nmake(vc_env)
RunNmake == RunTool("run_nmake", "nmake")

\* the names of a converted list option
NamesOf(list) == [i \in 1..Len(list) |-> list[i][1]]

\* self._copy_binaries(vc_env): _get_dll_paths locates the external packages,
\* the libraries are copied, then windeployqt runs
CopyBinaries ==
    /\ Enter("copy_binaries")
    /\ LET found == get_external_package_path(SysPath,
                        NamesOf(opt.external_packages), SitePackages)
       IN  IF ~found.ok
           THEN /\ Abort(found.err)
                /\ UNCHANGED <<dirs, invoked>>
           ELSE \E code \in ExitCodes :
                  /\ dirs' = dirs \cup {"build/release", "build/release/platforms"}
                  /\ Exec("windeployqt", code)
                  /\ Leave("copy_binaries", assert_call(code), "AssertionError")
    /\ UNCHANGED <<opt, app_version_c, app_config, files, marker, output_dirs,
                   pending, installers, repo, hook_log, user_config, project_file, call>>

\* self._copy_external_packages()
CopyExternalPackages ==
    /\ Enter("copy_external_packages")
    /\ LET found == get_external_package_path(SysPath,
                        NamesOf(opt.external_packages), SitePackages)
           stdlib == get_external_package_path(SysPath,
                        NamesOf(opt.external_stdlib_modules), SitePackages)
       IN  IF ~found.ok \/ ~stdlib.ok
           THEN /\ Abort("AssertionError")
                /\ UNCHANGED dirs
           ELSE /\ dirs' = dirs \cup
                      {"build/release/packages/" \o n :
                          n \in {m \in Range(NamesOf(opt.external_packages)) :
                                    <<found.v, m>> \in SitePackages}}
                      \cup (IF opt.external_packages = <<>> THEN {}
                            ELSE {"build/release/packages"})
                /\ pc' = After("copy_external_packages")
                /\ UNCHANGED error
    /\ UNCHANGED <<opt, app_version_c, app_config, files, marker, invoked,
                   output_dirs, pending, installers, repo, hook_log, user_config, project_file, call>>

\* if 'QtWebEngine' in self.qt_modules: self._copy_qt_web_engine_resources()
WebEngine ==
    /\ pc = "web_engine"
    /\ clock' = clock + 1
    /\ IF <<"QtWebEngine">> \in Range(opt.qt_modules)
       THEN /\ trace' = Append(trace, "web_engine")
            /\ files' = files \cup {"build/release/QtWebEngineProcess.exe"}
       ELSE UNCHANGED <<trace, files>>
    /\ pc' = After("web_engine")
    /\ UNCHANGED <<opt, app_version_c, app_config, dirs, marker, invoked,
                   output_dirs, pending, installers, error, repo, hook_log, user_config, project_file, call>>

\* a run() whose collection of targets starts from what the pre-build hooks
\* returned
\* self.output_dir as a plain output target
MainOutput == [dict |-> FALSE, output_dir |-> "build/release"]

InitialOutputDirs_from_pre(log) == log.pre

\* a run() whose collection of targets starts with the unnamed target
InitialOutputDirs_default(log) == <<[name |-> "", output |-> MainOutput]>>

\* output_dirs = {}
InitialOutputDirs(log) == <<>>

DefaultOutputDirs_none(merged) == merged

\* output_dirs = output_dirs or {'': self.output_dir}
DefaultOutputDirs(merged) ==
    IF Len(merged) = 0 THEN <<[name |-> "", output |-> MainOutput]>> ELSE merged

\* output_dirs = {}; the post-build hooks unless skip_post_build
PostBuild ==
    /\ pc = "post_build"
    /\ clock' = clock + 1
    /\ IF opt.skip_post_build
       THEN /\ output_dirs' = InitialOutputDirs(hook_log)
            /\ pc' = After("post_build")
            /\ UNCHANGED <<trace, hook_log, error>>
       ELSE /\ trace' = Append(trace, "post_build")
            /\ \E outcomes \in [1..Len(opt.post_build) -> HookOutcomes] :
                  LET r == build_steps(outcomes, <<>>, TRUE)
                  IN  IF r.ok
                      THEN /\ hook_log' = [hook_log EXCEPT !.post = r.v]
                           /\ output_dirs' = DefaultOutputDirs(
                                  DictMerge(InitialOutputDirs(hook_log), r.v))
                           /\ pc' = After("post_build")
                           /\ UNCHANGED error
                      ELSE /\ Abort(r.err)
                           /\ output_dirs' = InitialOutputDirs(hook_log)
                           /\ UNCHANGED hook_log
    /\ UNCHANGED <<opt, app_version_c, app_config, dirs, files, marker,
                   invoked, pending, installers, repo, user_config, project_file, call>>

\* if not self.skip_installer: for name, output in output_dirs.items()
Installer ==
    /\ pc = "installer"
    /\ clock' = clock + 1
    /\ IF opt.skip_installer
       THEN /\ pc' = After("installer")
            /\ UNCHANGED <<trace, pending>>
       ELSE /\ trace' = Append(trace, "installer")
            /\ pending' = output_dirs
            /\ pc' = IF Len(output_dirs) = 0 THEN After("installer")
                     ELSE "build_installer"
    /\ UNCHANGED <<opt, app_version_c, app_config, dirs, files, marker,
                   invoked, output_dirs, installers, error, repo, hook_log, user_config, project_file, call>>

\* self._installer_filename, with the target's name appended when it has one
installer_filename(version, name) ==
    project_name(opt.app_name) \o <<"_">> \o version \o <<"_">> \o opt.platform.v
        \o (IF name = "" THEN <<>> ELSE <<"-", name>>)

\* self._build_installer(name, output) for the next target
BuildInstaller ==
    /\ pc = "build_installer"
    /\ Len(pending) > 0
    /\ clock' = clock + 1
    /\ pending' = Tail(pending)
    /\ LET target == Head(pending)
           filename == installer_filename(CurrentVersion(app_version_c, opt).v,
                                          target.name)
           built == [name |-> target.name, file |-> filename,
                     from |-> target.output.output_dir]
       IN  \E code \in ExitCodes, signed \in ExitCodes :
              IF ~assert_call(code)
              THEN /\ Exec("inno_setup", code)
                   /\ Abort("AssertionError")
                   /\ UNCHANGED installers
              ELSE IF Truthy(opt.signtool) /\ ~assert_call(signed)
              THEN /\ invoked' = invoked \o <<[cmd |-> "inno_setup", code |-> code],
                                             [cmd |-> "signtool", code |-> signed]>>
                   /\ Abort("AssertionError")
                   /\ UNCHANGED installers
              ELSE /\ invoked' = invoked \o
                        (IF Truthy(opt.signtool)
                         THEN <<[cmd |-> "inno_setup", code |-> code],
                                [cmd |-> "signtool", code |-> signed]>>
                         ELSE <<[cmd |-> "inno_setup", code |-> code]>>)
                   /\ installers' = installers \cup {built}
                   /\ pc' = IF Len(pending) = 1 THEN After("installer")
                            ELSE "build_installer"
                   /\ UNCHANGED error
    /\ UNCHANGED <<opt, app_version_c, app_config, dirs, files, marker, trace,
                   output_dirs, repo, hook_log, user_config, project_file, call>>

----------------------------------------------------------------------------
(* The command: options are set, finalized, and run() is executed.         *)

Next ==
    \/ SetOptions
    \/ FinalizeOptions
    \/ Run
    \/ ApplyVersion
    \/ Clean
    \/ PreBuild
    \/ BuildProjectFile
    \/ CreateAppResources
    \/ GetVcEnv
    \/ RunPyqtdeploy
    \/ RemoveVersion
    \/ GenerateTs
    \/ GenerateQm
    \/ RunQmake
    \/ UpdateSourceFiles
    \/ RunNmake
    \/ CopyBinaries
    \/ CopyExternalPackages
    \/ WebEngine
    \/ PostBuild
    \/ Installer
    \/ BuildInstaller

Spec == Init /\ [][Next]_vars

(* The module-level helpers called directly: one call, on inputs drawn     *)
(* from the bounded sets above.                                            *)

NextFn ==
    \/ CallToBool
    \/ CallGetVersion
    \/ CallGetExternalPackagePath
    \/ CallToStrList

InitFn == Init /\ dirs = ToolDirs /\ ~repo.tagged

SpecFn == InitFn /\ [][NextFn]_vars

----------------------------------------------------------------------------
(* Properties of the module-level helpers (checked under SpecFn).          *)

UpperOf(c) ==
    CASE c = "t" -> "T"
      [] c = "r" -> "R"
      [] c = "u" -> "U"
      [] c = "e" -> "E"
      [] c = "y" -> "Y"
      [] c = "s" -> "S"
      [] OTHER   -> c

\* s is w in some letter case
SameWord(s, w) ==
    /\ Len(s) = Len(w)
    /\ \A i \in 1..Len(w) : s[i] = w[i] \/ s[i] = UpperOf(w[i])

AcceptedTrue(s) ==
    \/ SameWord(s, <<"1">>)
    \/ SameWord(s, <<"t", "r", "u", "e">>)
    \/ SameWord(s, <<"t">>)
    \/ SameWord(s, <<"y", "e", "s">>)

\* C10: to_bool is true for exactly the strings that are "1", "true", "t" or
\* "yes" in some letter case; false for every other non-empty string; false
\* for None and for the empty string.
C10_ToBool ==
    call.fn = "to_bool" =>
        IF call.arg.t = "str" /\ Len(call.arg.v) > 0
        THEN call.ret = AcceptedTrue(call.arg.v)
        ELSE call.ret = FALSE

C10_Witness ==
    /\ call.fn = "to_bool"
    /\ call.arg.t = "str"
    /\ call.arg.v = <<"T", "R", "U", "E">>
    /\ call.ret = TRUE

\* the candidate roots in priority order
Candidates(c) == c.sys_path \o <<".">>

HasAll(c, root, k) ==
    \A i \in 1..k : <<root, c.requires[i]>> \in c.exists

\* the first candidate root that satisfies P, or 0
FirstIndex(c, P(_)) ==
    IF \E i \in 1..Len(Candidates(c)) : P(Candidates(c)[i])
    THEN CHOOSE i \in 1..Len(Candidates(c)) :
            /\ P(Candidates(c)[i])
            /\ \A j \in 1..(i - 1) : ~P(Candidates(c)[j])
    ELSE 0

\* C7 as stated: every requested name resolves to the first candidate root
\* in which that name exists, and discovery fails, naming the module, exactly
\* when some requested name exists in no candidate root.
C7_FirstRootPerName ==
    call.fn = "_get_external_package_path" =>
        LET somewhere(n) == \E i \in 1..Len(Candidates(call)) :
                               <<Candidates(call)[i], n>> \in call.exists
        IN  /\ call.ret.ok <=> \A n \in Range(call.requires) : somewhere(n)
            /\ call.ret.ok =>
                  \A n \in Range(call.requires) :
                     call.ret.v = Candidates(call)[
                         FirstIndex(call, LAMBDA r : <<r, n>> \in call.exists)]
            /\ ~call.ret.ok => ~somewhere(call.ret.require)

\* C7 amended: all requested names resolve to one root, the first candidate
\* root in priority order that holds every requested name; discovery fails
\* exactly when no candidate root holds them all, and then names the first
\* requested name at which no root holds all the names up to it.
C7_FirstCommonRoot ==
    call.fn = "_get_external_package_path" =>
        LET n == Len(call.requires)
            common(k) == \E i \in 1..Len(Candidates(call)) :
                            HasAll(call, Candidates(call)[i], k)
        IN  /\ call.ret.ok <=> common(n)
            /\ call.ret.ok =>
                  call.ret.v = Candidates(call)[
                      FirstIndex(call, LAMBDA r : HasAll(call, r, n))]
            /\ ~call.ret.ok =>
                  \E k \in 1..n :
                     /\ call.ret.require = call.requires[k]
                     /\ ~common(k)
                     /\ common(k - 1)

C7_Witness ==
    /\ call.fn = "_get_external_package_path"
    /\ call.sys_path = <<"site", "lib">>
    /\ call.requires = <<"A", "B">>
    /\ call.exists = {<<"site", "A">>, <<"lib", "A">>, <<"lib", "B">>}
    /\ call.ret.ok
    /\ call.ret.v = "lib"

\* C8: for a checkout that sits exactly on a tag 'v' + X (no commit distance)
\* get_version returns X, with allow_untagged false and true alike.
C8_ExactTag ==
    (call.fn = "get_version" /\ call.git.tagged /\ call.git.distance = 0) =>
        /\ call.ret.ok
        /\ <<"v">> \o call.ret.v = call.git.tag

----------------------------------------------------------------------------
(* Properties of the pipeline (checked under Spec).                        *)

Count(cmd) == Cardinality({i \in 1..Len(invoked) : invoked[i].cmd = cmd})

Entered(stmt) == \E i \in 1..Len(trace) : trace[i] = stmt

\* finalize_options has returned: the options are converted
Finalized == app_config # None

Running == pc \in Range(RunOrder) \cup {"build_installer"}

\* the statements every completed run has entered, whatever its flags
Unconditional == Range(RunOrder) \ {"web_engine", "post_build", "installer"}

\* C1: the statements of run() are entered in the one fixed order (inject
\* version marker, clean, pre-build hooks, project descriptor, resources,
\* [compiler environment,] deployment compiler, remove marker, translations
\* (extract, compile), qmake, source-file overrides, nmake, copy binaries,
\* copy external packages, web-engine resources, post-build hooks,
\* installer), each only after everything entered before it has returned;
\* a completed run has entered all of them, except that post-build hooks
\* are left out exactly when skip_post_build is set, installer generation
\* exactly when skip_installer is set, and the web-engine resources exactly
\* when QtWebEngine is not among the modules.
C1_StageOrder ==
    /\ \A i, j \in 1..Len(trace) :
          i < j => StatementIndex(trace[i]) < StatementIndex(trace[j])
    /\ pc \in Range(RunOrder) =>
          \A i \in 1..Len(trace) : StatementIndex(trace[i]) < StatementIndex(pc)
    /\ pc = "build_installer" => trace[Len(trace)] = "installer"
    /\ pc = "done" =>
          /\ \A stmt \in Unconditional : Entered(stmt)
          /\ Entered("post_build") <=> ~opt.skip_post_build
          /\ Entered("installer") <=> ~opt.skip_installer
          /\ Entered("web_engine") <=> <<"QtWebEngine">> \in Range(opt.qt_modules)

C1_Witness ==
    /\ pc = "done"
    /\ trace = RunOrder

\* C2: an external process that exits with a non-zero status is the last
\* process the command invokes: the command has aborted, the statement that
\* invoked it is the last one entered, and nothing further can happen.
C2_FailedProcessAborts ==
    /\ \A i \in 1..Len(invoked) :
          invoked[i].code # 0 => (i = Len(invoked) /\ pc = "failed")
    /\ pc = "failed" => (error # NoError /\ ~ENABLED Next)

C2_Witness ==
    /\ pc = "failed"
    /\ Len(invoked) > 0
    /\ invoked[Len(invoked)] = [cmd |-> "nmake", code |-> 1]
    /\ trace[Len(trace)] = "run_nmake"

\* an option the command requires is not given
Missing(o) ==
    \E name \in {"qmake_path", "vc_dir", "platform", "pyqt_dir", "sip_dir",
                 "python_dir", "qt_modules", "package", "app_name"} :
        ~Truthy(o[name])

OnDisk(x) == x.t = "str" /\ Len(x.v) = 1 /\ x.v[1] \in dirs \cup files

\* a path the command requires names nothing on disk
NotOnDisk(o) ==
    \E name \in {"qmake_path", "vc_dir", "pyqt_dir", "sip_dir", "python_dir",
                 "package"} :
        Truthy(o[name]) /\ ~OnDisk(o[name])

\* the installer is wanted and its tool is not given or not on disk
InstallerToolMissing(o) ==
    /\ ~(o.skip_installer.t = "str" /\ AcceptedTrue(o.skip_installer.v))
    /\ (~Truthy(o.inno_setup_path) \/ ~OnDisk(o.inno_setup_path))

\* C3: when a required option is missing or a required path is not on disk
\* (the installer tool counting only when skip_installer is false),
\* finalize_options fails with an AssertionError and has created no file,
\* removed nothing (a build directory left from before is still there),
\* invoked no process and entered no statement of run().
C3_ValidationFailsClean ==
    [][(pc = "configured"
          /\ (Missing(opt) \/ NotOnDisk(opt) \/ InstallerToolMissing(opt)))
       => (/\ pc' = "failed"
           /\ error' = "AssertionError"
           /\ dirs' = dirs
           /\ files' = files
           /\ marker' = marker
           /\ invoked' = <<>>
           /\ trace' = <<>>)]_vars

C3_Witness ==
    /\ pc = "failed"
    /\ error = "AssertionError"
    /\ opt.qmake_path.t = "str"
    /\ opt.qmake_path.v = <<"nowhere">>
    /\ "build/stale.obj" \in files
    /\ invoked = <<>>

\* C4: with skip_installer and skip_post_build set, validation does not ask
\* for the installer tool (a configuration whose other required options are
\* in order is never rejected), no state of the run has invoked the
\* installer generator or the signing command or holds an installer, and a
\* completed run has entered every statement up to the copy of the binaries
\* and neither post-build hooks nor installer generation.
C4_SkipInstaller ==
    /\ [][(pc = "configured"
             /\ opt.skip_installer.t = "str" /\ AcceptedTrue(opt.skip_installer.v)
             /\ RequiredOptionsValid(opt, dirs, files))
          => error' # "AssertionError"]_vars
    /\ [](Finalized /\ opt.skip_installer /\ opt.skip_post_build =>
            /\ Count("inno_setup") = 0
            /\ Count("signtool") = 0
            /\ installers = {}
            /\ output_dirs = <<>>
            /\ pc = "done" =>
                  /\ \A i \in 1..StatementIndex("copy_binaries") :
                        Entered(RunOrder[i])
                  /\ ~Entered("post_build")
                  /\ ~Entered("installer"))

C4_Witness ==
    /\ pc = "done"
    /\ opt.skip_installer
    /\ opt.skip_post_build
    /\ opt.inno_setup_path = None
    /\ Truthy(opt.signtool)
    /\ Len(opt.post_build) > 0
    /\ "build/release/platforms" \in dirs

InstallerNames == {b.name : b \in installers}

\* the targets the post-build hooks of this run returned, or the unnamed
\* target when they returned none
PostTargets ==
    IF Len(hook_log.post) = 0 THEN {""} ELSE KeysOf(hook_log.post)

\* C5: when neither post-build nor installer generation is skipped, the
\* installer generator is never invoked more often than there are targets
\* in the merged mappings of the post-build hooks, only for those targets,
\* and in a completed run exactly once for each; when the hooks returned no
\* target (or none is configured) that is exactly one installer, for the
\* unnamed target '' built from the main output directory.
C5_InstallerPerTarget ==
    (Finalized /\ ~opt.skip_post_build /\ ~opt.skip_installer) =>
        /\ InstallerNames \subseteq PostTargets
        /\ Count("inno_setup") <= Cardinality(PostTargets)
        /\ Cardinality(installers) = Cardinality(InstallerNames)
        /\ pc = "done" =>
              /\ InstallerNames = PostTargets
              /\ Count("inno_setup") = Cardinality(PostTargets)
              /\ Len(hook_log.post) = 0 =>
                    \A b \in installers :
                        b.name = "" /\ b.from = "build/release"

C5_Witness ==
    /\ pc = "done"
    /\ ~opt.skip_post_build
    /\ ~opt.skip_installer
    /\ Len(opt.post_build) = 2
    /\ InstallerNames = {"a", "b"}
    /\ Count("inno_setup") = 2

C9_StrictUntaggedFails ==
    [][(pc = "configured" /\ repo.tagged /\ repo.distance > 0
          /\ ~(opt.allow_untagged.t = "str" /\ AcceptedTrue(opt.allow_untagged.v)))
       => (/\ pc' = "failed"
           /\ trace' = <<>>
           /\ marker' = NoFile
           /\ dirs' = dirs
           /\ files' = files
           /\ \A i \in 1..Len(invoked') : invoked'[i].cmd = "git"
           /\ (invoked' = <<[cmd |-> "git", code |-> 0]>>
                  => error' = "ValueError"))]_vars

C9_Witness ==
    /\ pc = "failed"
    /\ error = "ValueError"
    /\ repo.distance = 1
    /\ "build/stale.obj" \in files
    /\ invoked = <<[cmd |-> "git", code |-> 0]>>

----------------------------------------------------------------------------
(* to_str_list: comma-delimited option strings.                            *)

\* s has no empty segment: it is not empty, no comma starts or ends it and
\* no two commas are adjacent
NoEmptySegment(s) ==
    /\ Len(s) > 0
    /\ s[1] # ","
    /\ s[Len(s)] # ","
    /\ \A i \in 1..(Len(s) - 1) : ~(s[i] = "," /\ s[i + 1] = ",")

\* C11: for every comma-delimited option string s with no empty segment,
\* joining to_str_list(s) with "," gives back s and the result is the
\* comma-free segments of s in their order; an absent or empty s gives the
\* empty sequence.
C11_StrListRoundTrip ==
    call.fn = "to_str_list" =>
        /\ (call.arg = None \/ call.arg = PyStr(<<>>)) => call.ret = <<>>
        /\ (call.arg.t = "str" /\ NoEmptySegment(call.arg.v)) =>
              /\ Join(call.ret, ",") = call.arg.v
              /\ \A i \in 1..Len(call.ret) :
                    /\ Len(call.ret[i]) > 0
                    /\ "," \notin Range(call.ret[i])
              /\ Len(call.ret) =
                    1 + Cardinality({i \in 1..Len(call.arg.v) :
                                        call.arg.v[i] = ","})

C11_Witness ==
    /\ call.fn = "to_str_list"
    /\ call.arg = PyStr(<<"b", ",", "a">>)
    /\ call.ret = <<(<<"b">>), (<<"a">>)>>

----------------------------------------------------------------------------
(* The user-configuration file.                                            *)

\* the file holds every tool location the options o resolved
HoldsToolLocations(cfg, o) ==
    /\ cfg.exists
    /\ \A k \in ToolLocations :
          Truthy(o[k]) => (k \in DOMAIN cfg.content /\ cfg.content[k] = o[k])

\* every entry of the file before is an entry of the file after
KeepsEntries(before, after) ==
    before.exists =>
        /\ after.exists
        /\ \A k \in DOMAIN before.content :
              k \in DOMAIN after.content /\ after.content[k] = before.content[k]

\* C12: the step in which validation succeeds writes the resolved
\* tool-location options to the user-configuration file, and every entry
\* the file held before is still there with its value.
C12_CacheWritten ==
    [][(~Finalized /\ Finalized') =>
          /\ HoldsToolLocations(user_config', opt')
          /\ KeepsEntries(user_config, user_config')]_vars

----------------------------------------------------------------------------
(* The translation stage.                                                  *)

\* C13: in a run with an empty languages list neither pylupdate5 nor
\* lrelease is invoked.
C13_NoLanguagesNoTranslationTools ==
    (Finalized /\ Len(opt.languages) = 0) =>
        (Count("pylupdate5") = 0 /\ Count("lrelease") = 0)

----------------------------------------------------------------------------
(* The version marker file <package>/__version__.py.                       *)

\* position of the first entry of stmt in the trace, or 0
FirstEntry(stmt) ==
    IF Entered(stmt)
    THEN CHOOSE i \in 1..Len(trace) :
            trace[i] = stmt /\ \A j \in 1..(i - 1) : trace[j] # stmt
    ELSE 0

\* a tool that runs after the marker is removed has been started
LaterToolStarted ==
    \E cmd \in {"pylupdate5", "lrelease", "qmake", "nmake"} : Count(cmd) > 0

MarkerStates ==
    \* written before the build directory is cleaned
    /\ Entered("clean") =>
          (Entered("apply_version")
              /\ FirstEntry("apply_version") < FirstEntry("clean"))
    /\ pc = "clean" => marker.exists
    \* removed right after the deployment compiler, before what follows
    /\ Entered("remove_version") =>
          /\ Count("pyqtdeploycli") = 1
          /\ trace[FirstEntry("remove_version") - 1] = "run_pyqtdeploy"
    /\ (pc # "remove_version" /\ pc # "failed" /\ Entered("run_pyqtdeploy")) =>
          (Entered("remove_version") /\ ~marker.exists)
    /\ (\E stmt \in {"generate_ts", "generate_qm", "run_qmake", "run_nmake"} :
            Entered(stmt)) => ~marker.exists
    /\ LaterToolStarted => ~marker.exists
    \* gone at the end of a run that completes
    /\ pc = "done" => ~marker.exists

\* C14: the version marker file is written before the build directory is
\* cleaned and is there whenever the deployment compiler is started; it is
\* removed right after the deployment compiler succeeded and before
\* translations, qmake or nmake, so it does not exist at the end of a run
\* that completes.
C14_MarkerLifetime ==
    /\ []MarkerStates
    /\ [][Count("pyqtdeploycli")' > Count("pyqtdeploycli") =>
              (marker.exists /\ marker'.exists)]_vars

C14_Witness ==
    /\ pc = "done"
    /\ Count("pyqtdeploycli") = 1
    /\ Count("nmake") = 1
    /\ Entered("apply_version")
    /\ Entered("remove_version")
    /\ ~marker.exists

----------------------------------------------------------------------------
(* skip_post_build without skip_installer.                                 *)

PostBuildSkippedOnly ==
    Finalized /\ opt.skip_post_build /\ ~opt.skip_installer

\* C15: with skip_post_build set and skip_installer not set, the installer
\* tool was required and validated, yet the collection of output targets
\* stays empty, the installer generator is never started and a run that
\* completes has entered the installer stage and produced no installer.
C15_NoTargetsNoInstaller ==
    PostBuildSkippedOnly =>
        /\ Truthy(opt.inno_setup_path)
        /\ isfile(opt.inno_setup_path, files)
        /\ output_dirs = <<>>
        /\ pending = <<>>
        /\ Count("inno_setup") = 0
        /\ Count("signtool") = 0
        /\ installers = {}
        /\ ~Entered("post_build")
        /\ pc = "done" => Entered("installer")

C15_Witness ==
    /\ PostBuildSkippedOnly
    /\ pc = "done"
    /\ Entered("installer")
    /\ Count("nmake") = 1
    /\ installers = {}

----------------------------------------------------------------------------
(* The version of one build.                                               *)

\* the version held by self._app_version_c
CachedVersion == app_version_c.v

VersionUses ==
    \* resolved at most once, by finalize_options, before any other process
    /\ Count("git") <= 1
    /\ Count("git") = 1 => invoked[1].cmd = "git"
    /\ app_version_c # None => (Count("git") = 1 /\ invoked[1].code = 0)
    /\ (Finalized \/ Running \/ pc = "done") => app_version_c # None
    \* every use is the cached value
    /\ Finalized => app_config.app_version = CachedVersion
    /\ marker.exists => marker.content = CachedVersion
    /\ project_file.exists =>
          project_file.content = app_version_short(CachedVersion)
    /\ \A i \in installers :
          i.file = installer_filename(CachedVersion, i.name)

\* C16: the version is resolved at most once, during finalize_options, and
\* cached; the cached value never changes, and the version marker, the
\* project descriptor's short version, app_config's app_version and every
\* installer filename are all derived from it.
C16_OneVersionPerBuild ==
    /\ []VersionUses
    /\ [][app_version_c # None => app_version_c' = app_version_c]_vars

\* a completed build of a checkout without a tag, whose version holds the
\* time at which it was resolved
C16_Witness ==
    /\ pc = "done"
    /\ ~repo.tagged
    /\ clock > 2
    /\ app_config.app_version = CachedVersion
    /\ project_file.exists
    /\ Cardinality(installers) >= 2

====
